---- MODULE Spec2Model ----
(***************************************************************************)
(* Order saga coordinator (OrderService) on top of the message broker      *)
(* client (RabbitMQClient / RabbitMQService).                              *)
(*                                                                         *)
(* The order repository (Prisma) is the function `orders`; the client's    *)
(* channel field is `chan`.  One action is one complete run of an API      *)
(* operation or of the consume callback for one delivered message.  The    *)
(* broker's queues are filled by the inventory and payment collaborators   *)
(* and deliver at least once, so any event of a queue's schema may be      *)
(* delivered at any time and any number of times while the channel is      *)
(* open; a message that was nacked is requeued and comes back as a later   *)
(* delivery of the same event.  `last` records what the most recent        *)
(* operation was given, what it found, how it ended and what it handed to  *)
(* channel.publish.                                                        *)
(*                                                                         *)
(* SpecClient follows RabbitMQClient.connect, publish and close from one   *)
(* await to the next.  SpecBroker follows single messages through the      *)
(* inbound queues (`brk`): a delivery starts, its callback is suspended in *)
(* the handler, and it is settled when the callback resumes.               *)
(* SpecWire takes one event object through JSON.stringify and JSON.parse   *)
(* (`wire`).  SpecCancel runs cancelOrder from one await to the next       *)
(* (`cancelPc`) with event handlers in between.                            *)
(***************************************************************************)
EXTENDS Integers, Sequences, FiniteSets, TLC

\* ----------------------------------------------------------------- bounds
MaxOrders == 1      \* order ids the repository can hand out
MaxMsgs   == 2      \* messages the collaborators put on the inbound queues

\* ------------------------------------------------------------ value sets
OrderIds   == 1..MaxOrders
Users      == {"u1", "u2"}
NoUser     == "none"
NoOrder    == [absent |-> TRUE]
TxIds      == {"t1", "t2"}
ProductIds == {"p1", "p2", "p3", "p9"}
NoStock    == [absent |-> TRUE]

OrderStatus ==
  {"PENDING", "CONFIRMED", "PROCESSING", "SHIPPED", "DELIVERED", "CANCELLED", "FAILED"}

Queues ==
  {"inventory.reserved", "inventory.failed", "payment.completed", "payment.failed"}

Exchanges == {"orders.exchange", "inventory.exchange", "payments.exchange"}

\* Catalog rows the coordinator reads: price and stock (quantity on hand,
\* reserved); p3 has no stock row, p9 is no product at all.
Catalog ==
  [p1 |-> [price |-> 10, stock |-> [quantity |-> 2, reserved |-> 1]],
   p2 |-> [price |-> 5,  stock |-> [quantity |-> 1, reserved |-> 0]],
   p3 |-> [price |-> 7,  stock |-> NoStock]]

VARIABLES orders, chan, last,
          connection, connectPc, closePc, pub,
          brk, wire, cancelPc

\* the part of the state only the broker client's own life cycle moves
clientVars == <<connectPc, closePc, pub>>

vars == <<orders, chan, last, connection, connectPc, closePc, pub, brk, wire, cancelPc>>

\* ------------------------------------------------------------ repository
\* prisma.order.findUnique({where: {id, userId?}})
FindOrder(db, id, uid) ==
  IF id \notin DOMAIN db THEN NoOrder
  ELSE IF db[id] = NoOrder THEN NoOrder
  ELSE IF uid # NoUser /\ db[id].userId # uid THEN NoOrder
  ELSE db[id]

\* prisma.order.update({where: {id}, data: {status}}): throws when no row matches
UpdateStatus_DropsItems(db, id, st) ==
  IF FindOrder(db, id, NoUser) = NoOrder
    THEN [err |-> TRUE,  db |-> db]
    ELSE [err |-> FALSE, db |-> [db EXCEPT ![id].status = st, ![id].items = <<>>]]

UpdateStatus(db, id, st) ==
  IF FindOrder(db, id, NoUser) = NoOrder
    THEN [err |-> TRUE,  db |-> db]
    ELSE [err |-> FALSE, db |-> [db EXCEPT ![id].status = st]]

\* ---------------------------------------------------------- broker client
\* RabbitMQClient.publish: throws without a channel, and amqplib throws on a
\* closed one; otherwise the message is handed to the channel.
Publish(ch, exchange, routingKey, message) ==
  IF ch # "open"
    THEN [err |-> TRUE,  out |-> <<>>]
    ELSE [err |-> FALSE,
          out |-> <<[exchange |-> exchange, routingKey |-> routingKey, body |-> message]>>]

\* ------------------------------------------------------- event handlers
\* Each handler returns the repository it leaves behind, what it published,
\* and whether it threw.

\* handleInventoryReserved that confirms the order but never triggers payment
handleInventoryReserved_NoPayment(db, ch, event) ==
  LET u == UpdateStatus(db, event.orderId, IF event.success THEN "CONFIRMED" ELSE "FAILED")
  IN  [err |-> u.err, db |-> u.db, out |-> <<>>]

handleInventoryReserved(db, ch, event) ==
  IF event.success
    THEN LET u     == UpdateStatus(db, event.orderId, "CONFIRMED")
             order == FindOrder(u.db, event.orderId, NoUser)
             p     == Publish(ch, "payments.exchange", "payment.initiate",
                              [orderId |-> event.orderId, amount |-> order.totalAmount])
         IN  IF u.err THEN [err |-> TRUE, db |-> db, out |-> <<>>]
             ELSE IF order = NoOrder THEN [err |-> FALSE, db |-> u.db, out |-> <<>>]
             ELSE [err |-> p.err, db |-> u.db, out |-> p.out]
    ELSE LET u == UpdateStatus(db, event.orderId, "FAILED")
         IN  [err |-> u.err, db |-> u.db, out |-> <<>>]

\* handleInventoryFailed written like handlePaymentFailed: it also releases
handleInventoryFailed_Releases(db, ch, event) ==
  LET u == UpdateStatus(db, event.orderId, "FAILED")
      p == Publish(ch, "inventory.exchange", "inventory.release",
                   [orderId |-> event.orderId])
  IN  IF u.err THEN [err |-> TRUE, db |-> db, out |-> <<>>]
      ELSE [err |-> p.err, db |-> u.db, out |-> p.out]

handleInventoryFailed(db, ch, event) ==
  LET u == UpdateStatus(db, event.orderId, "FAILED")
  IN  [err |-> u.err, db |-> u.db, out |-> <<>>]

handlePaymentCompleted(db, ch, event) ==
  LET u == UpdateStatus(db, event.orderId, "PROCESSING")
      p == Publish(ch, "orders.exchange", "order.confirmed",
                   [orderId |-> event.orderId, transactionId |-> event.transactionId])
  IN  IF u.err THEN [err |-> TRUE, db |-> db, out |-> <<>>]
      ELSE [err |-> p.err, db |-> u.db, out |-> p.out]

\* handlePaymentFailed that cancels the order instead of failing it
handlePaymentFailed_Cancels(db, ch, event) ==
  LET u == UpdateStatus(db, event.orderId, "CANCELLED")
      p == Publish(ch, "inventory.exchange", "inventory.release",
                   [orderId |-> event.orderId])
  IN  IF u.err THEN [err |-> TRUE, db |-> db, out |-> <<>>]
      ELSE [err |-> p.err, db |-> u.db, out |-> p.out]

handlePaymentFailed(db, ch, event) ==
  LET u == UpdateStatus(db, event.orderId, "FAILED")
      p == Publish(ch, "inventory.exchange", "inventory.release",
                   [orderId |-> event.orderId])
  IN  IF u.err THEN [err |-> TRUE, db |-> db, out |-> <<>>]
      ELSE [err |-> p.err, db |-> u.db, out |-> p.out]

\* OrderService.onModuleInit: which handler is bound to which queue
Handler(q, db, ch, event) ==
  CASE q = "inventory.reserved" -> handleInventoryReserved(db, ch, event)
    [] q = "inventory.failed"   -> handleInventoryFailed(db, ch, event)
    [] q = "payment.completed"  -> handlePaymentCompleted(db, ch, event)
    [] q = "payment.failed"     -> handlePaymentFailed(db, ch, event)

\* ------------------------------------------------------- API operations
\* cancelOrder with the status check turned around: only PENDING is rejected
cancelOrder_WrongCheck(db, ch, orderId, userId) ==
  LET order == FindOrder(db, orderId, userId)
      u     == UpdateStatus(db, orderId, "CANCELLED")
      p     == Publish(ch, "orders.exchange", "order.cancelled",
                       [orderId |-> orderId, reason |-> "Cancelled by user"])
  IN  IF order = NoOrder
        THEN [res |-> "NotFound", db |-> db, out |-> <<>>]
      ELSE IF order.status = "PENDING"
        THEN [res |-> "BadRequest", db |-> db, out |-> <<>>]
      ELSE IF p.err
        THEN [res |-> "Error", db |-> u.db, out |-> <<>>]
      ELSE [res |-> "ok", db |-> u.db, out |-> p.out]

cancelOrder(db, ch, orderId, userId) ==
  LET order == FindOrder(db, orderId, userId)
      u     == UpdateStatus(db, orderId, "CANCELLED")
      p     == Publish(ch, "orders.exchange", "order.cancelled",
                       [orderId |-> orderId, reason |-> "Cancelled by user"])
  IN  IF order = NoOrder
        THEN [res |-> "NotFound", db |-> db, out |-> <<>>]
      ELSE IF order.status # "PENDING" /\ order.status # "CONFIRMED"
        THEN [res |-> "BadRequest", db |-> db, out |-> <<>>]
      ELSE IF p.err
        THEN [res |-> "Error", db |-> u.db, out |-> <<>>]
      ELSE [res |-> "ok", db |-> u.db, out |-> p.out]

\* prisma.product.findMany({where: {id: {in: productIds}}}): one row per
\* existing product among the requested ids
FindProducts(productIds) == productIds \cap DOMAIN Catalog

ItemProductIds(items) == {items[i].productId : i \in DOMAIN items}

\* The validation loop of createOrder over the first n items: the first
\* failure it meets, or the running total.
RECURSIVE ValidateItems(_, _, _)
ValidateItems(items, products, n) ==
  IF n = 0 THEN [res |-> "ok", total |-> 0]
  ELSE LET prev == ValidateItems(items, products, n - 1)
           item == items[n]
       IN  IF prev.res # "ok" THEN prev
           ELSE IF item.productId \notin products
             THEN [res |-> "NotFound", total |-> 0]
           ELSE IF \/ Catalog[item.productId].stock = NoStock
                   \/ Catalog[item.productId].stock.quantity < item.quantity
             THEN [res |-> "BadRequest", total |-> 0]
           ELSE [res |-> "ok",
                 total |-> prev.total + Catalog[item.productId].price * item.quantity]

\* the id the repository gives the next created order
NextOrderId(db) ==
  IF \E i \in DOMAIN db : db[i] = NoOrder
    THEN CHOOSE i \in DOMAIN db : db[i] = NoOrder /\ \A j \in DOMAIN db : db[j] = NoOrder => i <= j
    ELSE 0

\* createOrder up to the end of its validation loop: the error it throws, or
\* the total it computed
validateOrder(dto) ==
  LET products == FindProducts(ItemProductIds(dto.items))
  IN  IF Cardinality(products) # Len(dto.items)
        THEN [res |-> "NotFound", total |-> 0]
        ELSE ValidateItems(dto.items, products, Len(dto.items))

createOrder(db, ch, dto) ==
  LET v     == validateOrder(dto)
      id    == NextOrderId(db)
      order == [status |-> "PENDING", userId |-> dto.userId, totalAmount |-> v.total,
                items |-> [i \in DOMAIN dto.items |->
                             [productId |-> dto.items[i].productId,
                              quantity  |-> dto.items[i].quantity,
                              price     |-> Catalog[dto.items[i].productId].price]]]
      p     == Publish(ch, "orders.exchange", "order.created",
                       [orderId |-> id, userId |-> dto.userId, items |-> dto.items,
                        totalAmount |-> v.total])
  IN  IF v.res # "ok"
        THEN [res |-> v.res, db |-> db, out |-> <<>>, id |-> 0]
      ELSE IF p.err
        THEN [res |-> "Error", db |-> [db EXCEPT ![id] = order], out |-> <<>>, id |-> id]
      ELSE [res |-> "ok", db |-> [db EXCEPT ![id] = order], out |-> p.out, id |-> id]

\* ---------------------------------------------------------------- inputs
Item(productId, quantity) == [productId |-> productId, quantity |-> quantity]

\* The item lists create-order requests are drawn from: two that pass
\* validation, and one for each way an entry can fail it, in first and in
\* second position.
ItemLists ==
  { <<Item("p1", 2)>>,                  \* in stock
    <<Item("p2", 1), Item("p1", 1)>>,   \* two products, both in stock
    <<Item("p2", 2)>>,                  \* more than the quantity on hand
    <<Item("p3", 1)>>,                  \* product without a stock row
    <<Item("p9", 1)>>,                  \* no such product
    <<Item("p1", 1), Item("p1", 1)>>,   \* the same product twice
    <<Item("p1", 1), Item("p9", 1)>>,   \* second product missing
    <<Item("p1", 1), Item("p2", 2)>>,   \* second entry short of stock
    <<Item("p2", 2), Item("p1", 1)>> }  \* first entry short of stock

Dtos == [userId : Users, items : ItemLists]

\* what the inventory and payment collaborators put on each queue
Events(q) ==
  CASE q = "inventory.reserved" -> [orderId : OrderIds, success : BOOLEAN]
    [] q = "inventory.failed"   -> [orderId : OrderIds]
    [] q = "payment.completed"  -> [orderId : OrderIds, transactionId : TxIds]
    [] q = "payment.failed"     -> [orderId : OrderIds]

\* The inbound queues as the broker holds them: message m is not sent yet,
\* ready in its queue, delivered and not settled (its consume callback is
\* running), acknowledged, or dropped.
Msgs == 1..MaxMsgs
NoMessage == [st |-> "unsent"]
\* an acknowledged message is gone from its queue
Acked     == [st |-> "acked"]

\* an order id no order ever gets
MissingOrderId == 0

\* what arrives on queue q: events for the order placed and events naming
\* no order
ArrivalOrderIds == {1, MissingOrderId}
Arrivals(q) ==
  CASE q = "inventory.reserved" -> [orderId : ArrivalOrderIds, success : BOOLEAN]
    [] q = "inventory.failed"   -> [orderId : ArrivalOrderIds]
    [] q = "payment.completed"  -> [orderId : ArrivalOrderIds, transactionId : {"t1"}]
    [] q = "payment.failed"     -> [orderId : ArrivalOrderIds]

\* the order request placed before the broker specification starts
BrokerDtos == {[userId |-> "u1", items |-> <<Item("p2", 1), Item("p1", 1)>>]}

\* ------------------------------------------------------- message content
\* JavaScript values as the events hold them, each with its type
Str(s)    == [t |-> "string",  v |-> s]
Num(n)    == [t |-> "number",  v |-> n]
Bool(b)   == [t |-> "boolean", v |-> b]
DateOf(i) == [t |-> "Date",    v |-> i]
Arr(seq)  == [t |-> "array",   v |-> seq]
Obj(rec)  == [t |-> "object",  v |-> rec]
Undefined == [t |-> "undefined"]

\* Date.prototype.toJSON: the ISO-8601 text of the instant
ToISOString(d) == "2024-01-01T00:00:0" \o d.v \o ".000Z"

\* JSON.stringify(message): a Date goes out as its ISO string, arrays and
\* objects member by member, the rest as it is
RECURSIVE Stringify(_)
Stringify(x) ==
  CASE x.t = "Date"   -> Str(ToISOString(x))
    [] x.t = "array"  -> Arr([i \in DOMAIN x.v |-> Stringify(x.v[i])])
    [] x.t = "object" -> Obj([k \in DOMAIN x.v |-> Stringify(x.v[k])])
    [] OTHER          -> x

\* JSON.parse(content) without a reviver: every JSON string, dates
\* included, comes back as a string
RECURSIVE Parse(_)
Parse(j) ==
  CASE j.t = "array"  -> Arr([i \in DOMAIN j.v |-> Parse(j.v[i])])
    [] j.t = "object" -> Obj([k \in DOMAIN j.v |-> Parse(j.v[k])])
    [] OTHER          -> j

\* the instants `new Date()` yields
Instants == {"1", "2", "3", "4"}

WireItems(items) ==
  Arr([i \in DOMAIN items |->
         Obj([productId |-> Str(items[i].productId), quantity |-> Num(items[i].quantity)])])

\* the event objects of each routing key, as OrderService builds the ones
\* it publishes and as the event types declare the ones it consumes
WireEvents(key) ==
  CASE key = "order.created" ->
         {Obj([orderId |-> Str(o), userId |-> Str(dto.userId), items |-> WireItems(dto.items),
               totalAmount |-> Num(validateOrder(dto).total), timestamp |-> DateOf(ts)]) :
            o \in OrderIds, dto \in {d \in Dtos : validateOrder(d).res = "ok"}, ts \in Instants}
    [] key = "order.cancelled" ->
         {Obj([orderId |-> Str(o), reason |-> Str("Cancelled by user"), timestamp |-> DateOf(ts)]) :
            o \in OrderIds, ts \in Instants}
    [] key = "order.confirmed" ->
         {Obj([orderId |-> Str(o), transactionId |-> Str(tx), timestamp |-> DateOf(ts)]) :
            o \in OrderIds, tx \in TxIds, ts \in Instants}
    [] key = "inventory.release" ->
         {Obj([orderId |-> Str(o), timestamp |-> DateOf(ts)]) : o \in OrderIds, ts \in Instants}
    [] key = "payment.initiate" ->
         {Obj([orderId |-> Str(o), amount |-> Num(a), timestamp |-> DateOf(ts)]) :
            o \in OrderIds, a \in {15, 20}, ts \in Instants}
    [] key = "inventory.reserved" ->
         {Obj([orderId |-> Str(o), success |-> Bool(b), timestamp |-> DateOf(ts)]) :
            o \in OrderIds, b \in BOOLEAN, ts \in Instants}
    [] key = "inventory.failed" ->
         {Obj([orderId |-> Str(o), reason |-> Str("out of stock"), timestamp |-> DateOf(ts)]) :
            o \in OrderIds, ts \in Instants}
    [] key = "payment.completed" ->
         {Obj([orderId |-> Str(o), transactionId |-> Str(tx), amount |-> Num(a),
               paymentMethod |-> Str("CARD"), timestamp |-> DateOf(ts)]) :
            o \in OrderIds, tx \in TxIds, a \in {15, 20}, ts \in Instants}
    [] key = "payment.failed" ->
         {Obj([orderId |-> Str(o), reason |-> Str("declined"), timestamp |-> DateOf(ts)]) :
            o \in OrderIds, ts \in Instants}

RoutingKeys ==
  {"order.created", "order.cancelled", "order.confirmed", "inventory.release", "payment.initiate",
   "inventory.reserved", "inventory.failed", "payment.completed", "payment.failed"}

\* nothing has been published for the round trip yet
NoWire == [key |-> "none", published |-> Undefined, content |-> Undefined, received |-> Undefined]

\* no cancelOrder call is under way
NoCancel == [at |-> "idle", orderId |-> 0, read |-> "none", atWrite |-> "none"]

\* no publish call has been made on the client yet
NoPublish == [res |-> "none", at |-> "idle", out |-> <<>>]

Idle == [op |-> "none", id |-> 0, arg |-> <<>>, pre |-> NoOrder, res |-> "none", out |-> <<>>]

\* ------------------------------------------------------------------ Init
Init ==
  /\ orders = [i \in OrderIds |-> NoOrder]
  /\ chan   = "null"
  /\ last   = Idle
  /\ connection = "null"
  /\ connectPc  = [at |-> "idle", n |-> 0]
  /\ closePc    = [at |-> "idle", wasConnected |-> FALSE, triedConnection |-> FALSE]
  /\ pub        = NoPublish
  /\ brk        = [m \in Msgs |-> NoMessage]
  /\ wire       = NoWire
  /\ cancelPc   = NoCancel

\* --------------------------------------------------------------- actions
\* RabbitMQService.onModuleInit (connect, bindQueue x4) followed by
\* OrderService.onModuleInit (subscribe x4)
ModuleInit ==
  /\ chan = "null"
  /\ chan' = "open"
  /\ connection' = "open"
  /\ last' = Idle
  /\ UNCHANGED <<cancelPc, orders, clientVars, brk, wire>>

\* RabbitMQService.onModuleDestroy -> RabbitMQClient.close: the channel is
\* closed, the field keeps pointing at it
ModuleDestroy ==
  /\ chan = "open"
  /\ chan' = "closed"
  /\ connection' = "closed"
  /\ last' = Idle
  /\ UNCHANGED <<cancelPc, orders, clientVars, brk, wire>>

CreateOrder(dto) ==
  /\ chan # "null"
  /\ validateOrder(dto).res = "ok" => NextOrderId(orders) # 0
  /\ LET r == createOrder(orders, chan, dto)
     IN  /\ orders' = r.db
         /\ last' = [op |-> "createOrder", id |-> r.id, arg |-> dto, pre |-> NoOrder,
                     res |-> r.res, out |-> r.out]
  /\ UNCHANGED <<cancelPc, chan, connection, clientVars, brk, wire>>

CancelOrder(orderId, userId) ==
  /\ chan # "null"
  /\ LET r == cancelOrder(orders, chan, orderId, userId)
     IN  /\ orders' = r.db
         /\ last' = [op |-> "cancelOrder", id |-> orderId, arg |-> userId,
                     pre |-> FindOrder(orders, orderId, NoUser),
                     res |-> r.res, out |-> r.out]
  /\ UNCHANGED <<cancelPc, chan, connection, clientVars, brk, wire>>

\* RabbitMQClient.subscribe's consume callback for a message of queue q
\* carrying `event`: run the handler, ack on success, nack with requeue when
\* it throws.
Deliver(q, event) ==
  /\ chan = "open"
  /\ LET r == Handler(q, orders, chan, event)
     IN  /\ orders' = r.db
         /\ last' = [op |-> q, id |-> event.orderId, arg |-> event,
                     pre |-> FindOrder(orders, event.orderId, NoUser),
                     res |-> IF r.err THEN "nack" ELSE "ack", out |-> r.out]
  /\ UNCHANGED <<cancelPc, chan, connection, clientVars, brk, wire>>

\* OrderService.getOrderById: the order, or NotFound when no order has that
\* id (and, with a user id, that owner); nothing is written.
GetOrderById(orderId, userId) ==
  /\ last' = [op |-> "getOrderById", id |-> orderId, arg |-> userId,
              pre |-> FindOrder(orders, orderId, NoUser),
              res |-> IF FindOrder(orders, orderId, userId) = NoOrder
                        THEN "NotFound" ELSE "ok",
              out |-> <<>>]
  /\ UNCHANGED <<cancelPc, orders, chan, connection, clientVars, brk, wire>>

\* OrderService.getUserOrders: the user's orders and their count; nothing
\* is written.
GetUserOrders(userId) ==
  /\ last' = [op |-> "getUserOrders", id |-> 0, arg |-> userId, pre |-> NoOrder,
              res |-> Cardinality({i \in OrderIds : FindOrder(orders, i, userId) # NoOrder}),
              out |-> <<>>]
  /\ UNCHANGED <<cancelPc, orders, chan, connection, clientVars, brk, wire>>

\* The fulfilment collaborator moves a paid order on: PROCESSING -> SHIPPED
\* -> DELIVERED.
Fulfil(orderId) ==
  /\ orders[orderId] # NoOrder
  /\ orders[orderId].status \in {"PROCESSING", "SHIPPED"}
  /\ orders' = [orders EXCEPT ![orderId].status =
                  IF @ = "PROCESSING" THEN "SHIPPED" ELSE "DELIVERED"]
  /\ last' = Idle
  /\ UNCHANGED <<cancelPc, chan, connection, clientVars, brk, wire>>

Next ==
  \/ ModuleInit
  \/ ModuleDestroy
  \/ \E dto \in Dtos : CreateOrder(dto)
  \/ \E o \in OrderIds, u \in Users \cup {NoUser} : CancelOrder(o, u)
  \/ \E o \in OrderIds, u \in Users \cup {NoUser} : GetOrderById(o, u)
  \/ \E u \in Users : GetUserOrders(u)
  \/ \E q \in Queues : \E e \in Events(q) : Deliver(q, e)
  \/ \E o \in OrderIds : Fulfil(o)

Spec == Init /\ [][Next]_vars

\* ------------------------------------------- broker client life cycle
\* RabbitMQClient on its own: connect() and close() advance from one await
\* to the next, every awaited broker call can fail, and publish() can be
\* called between any two steps.

\* connect() is called
ConnectCall ==
  /\ connectPc.at = "idle"
  /\ connectPc' = [at |-> "connect", n |-> 0]
  /\ UNCHANGED <<cancelPc, wire, brk, orders, chan, last, connection, closePc, pub>>

\* amqp.connect resolves: the connection field is set
ConnectionOpened ==
  /\ connectPc.at = "connect"
  /\ connection = "null"
  /\ connection' = "open"
  /\ connectPc' = [at |-> "createChannel", n |-> 0]
  /\ UNCHANGED <<cancelPc, wire, brk, orders, chan, last, closePc, pub>>

\* connection.createChannel resolves: the channel field is set
ChannelCreated ==
  /\ connectPc.at = "createChannel"
  /\ connection = "open"
  /\ chan' = "open"
  /\ connectPc' = [at |-> "assertExchange", n |-> 0]
  /\ UNCHANGED <<cancelPc, wire, brk, orders, last, connection, closePc, pub>>

\* one more configured exchange is declared
ExchangeAsserted ==
  /\ connectPc.at = "assertExchange"
  /\ chan = "open"
  /\ connectPc' = IF connectPc.n + 1 = Cardinality(Exchanges)
                    THEN [at |-> "assertQueue", n |-> 0]
                    ELSE [connectPc EXCEPT !.n = @ + 1]
  /\ UNCHANGED <<cancelPc, wire, brk, orders, chan, last, connection, closePc, pub>>

\* one more configured queue is declared; after the last one connect() returns
QueueAsserted ==
  /\ connectPc.at = "assertQueue"
  /\ chan = "open"
  /\ connectPc' = IF connectPc.n + 1 = Cardinality(Queues)
                    THEN [at |-> "connected", n |-> 0]
                    ELSE [connectPc EXCEPT !.n = @ + 1]
  /\ UNCHANGED <<cancelPc, wire, brk, orders, chan, last, connection, closePc, pub>>

\* the awaited call rejects: connect() logs and rethrows; the fields keep
\* what was assigned so far.  A declaration that fails is a channel error,
\* after which the broker has closed the channel.
ConnectFails ==
  /\ connectPc.at \in {"connect", "createChannel", "assertExchange", "assertQueue"}
  /\ connectPc' = [at |-> "failed", n |-> connectPc.n]
  /\ chan' = IF connectPc.at \in {"assertExchange", "assertQueue"} THEN "closed" ELSE chan
  /\ UNCHANGED <<cancelPc, wire, brk, orders, last, connection, closePc, pub>>

\* publish() is called, wherever connect() and close() stand
PublishCall(exchange, routingKey, message) ==
  /\ LET r == Publish(chan, exchange, routingKey, message)
     IN  pub' = [res |-> IF r.err THEN "threw" ELSE "sent", at |-> connectPc.at, out |-> r.out]
  /\ UNCHANGED <<cancelPc, wire, brk, orders, chan, last, connection, connectPc, closePc>>

\* close() is called: it goes for the channel if there is one, else for the
\* connection if there is one
CloseCall ==
  /\ closePc.at = "idle"
  /\ closePc' = [at |-> IF chan # "null" THEN "channel.close"
                        ELSE IF connection # "null" THEN "connection.close"
                        ELSE "returned",
                 wasConnected |-> connectPc.at = "connected",
                 triedConnection |-> chan = "null" /\ connection # "null"]
  /\ UNCHANGED <<cancelPc, wire, brk, orders, chan, last, connection, connectPc, pub>>

\* channel.close() resolves; close() goes on to the connection
ChannelClosed ==
  /\ closePc.at = "channel.close"
  /\ chan' = "closed"
  /\ closePc' = [closePc EXCEPT !.at = IF connection # "null" THEN "connection.close"
                                        ELSE "returned",
                                 !.triedConnection = connection # "null"]
  /\ UNCHANGED <<cancelPc, wire, brk, orders, last, connection, connectPc, pub>>

\* connection.close() resolves; the connection takes its channel with it
ConnectionClosed ==
  /\ closePc.at = "connection.close"
  /\ connection' = "closed"
  /\ chan' = IF chan = "open" THEN "closed" ELSE chan
  /\ closePc' = [closePc EXCEPT !.at = "returned"]
  /\ UNCHANGED <<cancelPc, wire, brk, orders, last, connectPc, pub>>

\* the awaited close rejects: close() raises from where it stands
CloseFails ==
  /\ closePc.at \in {"channel.close", "connection.close"}
  /\ closePc' = [closePc EXCEPT !.at = "raised"]
  /\ UNCHANGED <<cancelPc, wire, brk, orders, chan, last, connection, connectPc, pub>>

PublishedMessages == {[orderId |-> 1]}

NextClient ==
  \/ ConnectCall
  \/ ConnectionOpened
  \/ ChannelCreated
  \/ ExchangeAsserted
  \/ QueueAsserted
  \/ ConnectFails
  \/ \E x \in Exchanges : \E m \in PublishedMessages : PublishCall(x, "order.created", m)
  \/ CloseCall
  \/ ChannelClosed
  \/ ConnectionClosed
  \/ CloseFails

SpecClient == Init /\ [][NextClient]_vars

\* ------------------------------------------------- subscribe, delivery
\* The consume callback of RabbitMQClient.subscribe for one delivery: parse
\* the content, await the handler, ack; on any throw log and nack with
\* requeue.  Nothing is rethrown.
consumeCallback_AckOnError(q, db, ch, event) ==
  LET r == Handler(q, db, ch, event)
  IN  [db |-> r.db, out |-> r.out, settle |-> "ack", requeue |-> FALSE, rethrown |-> FALSE]

consumeCallback_NoRequeue(q, db, ch, event) ==
  LET r == Handler(q, db, ch, event)
  IN  [db |-> r.db, out |-> r.out,
       settle   |-> IF r.err THEN "nack" ELSE "ack",
       requeue  |-> FALSE,
       rethrown |-> FALSE]

consumeCallback(q, db, ch, event) ==
  LET r == Handler(q, db, ch, event)
  IN  [db |-> r.db, out |-> r.out,
       settle   |-> IF r.err THEN "nack" ELSE "ack",
       requeue  |-> r.err,
       rethrown |-> FALSE]

\* The broker's side of channel.ack(msg) and channel.nack(msg, false,
\* requeue); a callback that rethrows settles nothing and leaves a rejected
\* promise behind.
Settled(msg, c) ==
  IF c.rethrown THEN [msg EXCEPT !.st = "unhandled"]
  ELSE IF c.settle = "ack" THEN Acked
  ELSE IF c.requeue THEN [msg EXCEPT !.st = "ready", !.redelivered = TRUE]
  ELSE [msg EXCEPT !.st = "dropped"]

\* an inventory or payment collaborator publishes `event` to queue q
Enqueue(m, q, event) ==
  /\ chan = "open"
  /\ brk[m] = NoMessage
  /\ \A k \in Msgs : k < m => brk[k] # NoMessage
  /\ brk' = [brk EXCEPT ![m] = [st |-> "ready", queue |-> q, event |-> event,
                                 redelivered |-> FALSE]]
  /\ UNCHANGED <<cancelPc, orders, chan, last, connection, clientVars, wire>>

\* The broker delivers ready message m (the consumer sets no prefetch limit,
\* so earlier deliveries need not be settled); the callback parses it, calls
\* the handler and suspends at the handler's first await.
StartDelivery(m) ==
  /\ chan = "open"
  /\ brk[m].st = "ready"
  /\ brk' = [brk EXCEPT ![m].st = "running"]
  /\ UNCHANGED <<cancelPc, orders, chan, last, connection, clientVars, wire>>

\* The suspended callback of message m resumes: the handler's repository
\* update and publish take effect, then the delivery is settled.
FinishDelivery(m) ==
  /\ chan = "open"
  /\ brk[m].st = "running"
  /\ LET c == consumeCallback(brk[m].queue, orders, chan, brk[m].event)
     IN  /\ orders' = c.db
         /\ brk' = [brk EXCEPT ![m] = Settled(brk[m], c)]
  /\ UNCHANGED <<cancelPc, chan, last, connection, clientVars, wire>>

\* The service boots with an order already placed: what createOrder left
\* in the repository for a request of BrokerDtos.
InitBroker ==
  /\ \E dto \in BrokerDtos :
       orders = createOrder([i \in OrderIds |-> NoOrder], "open", dto).db
  /\ chan   = "null"
  /\ last   = Idle
  /\ connection = "null"
  /\ connectPc  = [at |-> "idle", n |-> 0]
  /\ closePc    = [at |-> "idle", wasConnected |-> FALSE, triedConnection |-> FALSE]
  /\ pub        = NoPublish
  /\ brk        = [m \in Msgs |-> NoMessage]
  /\ wire       = NoWire
  /\ cancelPc   = NoCancel

NextBroker ==
  \/ ModuleInit
  \/ \E m \in Msgs : \E q \in Queues : \E e \in Arrivals(q) : Enqueue(m, q, e)
  \/ \E m \in Msgs : StartDelivery(m)
  \/ \E m \in Msgs : FinishDelivery(m)

SpecBroker == InitBroker /\ [][NextBroker]_vars

\* The broker keeps delivering what is ready and a suspended callback is
\* resumed once its awaited call returns.
SpecBrokerFair ==
  /\ SpecBroker
  /\ \A m \in Msgs : WF_vars(StartDelivery(m)) /\ WF_vars(FinishDelivery(m))

\* ------------------------------------------------ publish, then consume
\* RabbitMQClient.publish serialises the event object into the message
\* content
PublishEvent(key, event) ==
  /\ wire' = [key |-> key, published |-> event, content |-> Stringify(event),
              received |-> Undefined]
  /\ UNCHANGED <<cancelPc, orders, chan, last, connection, clientVars, brk>>

\* the consume callback parses the content and hands the result to the
\* handler
ConsumeEvent ==
  /\ wire.content # Undefined
  /\ wire.received = Undefined
  /\ wire' = [wire EXCEPT !.received = Parse(wire.content)]
  /\ UNCHANGED <<cancelPc, orders, chan, last, connection, clientVars, brk>>

NextWire ==
  \/ \E key \in RoutingKeys : \E event \in WireEvents(key) : PublishEvent(key, event)
  \/ ConsumeEvent

SpecWire == Init /\ [][NextWire]_vars

\* --------------------------------------------- cancelOrder, await by await
\* cancelOrder is called: getOrderById reads the order, then the status
\* check; NotFound and BadRequest end the call here.
CancelRead(orderId, userId) ==
  /\ chan # "null"
  /\ cancelPc.at \in {"idle", "returned", "raised"}
  /\ LET order == FindOrder(orders, orderId, userId)
     IN  cancelPc' =
           IF order = NoOrder
             THEN [at |-> "raised", orderId |-> orderId, read |-> "none", atWrite |-> "none"]
           ELSE IF order.status # "PENDING" /\ order.status # "CONFIRMED"
             THEN [at |-> "raised", orderId |-> orderId, read |-> order.status, atWrite |-> "none"]
           ELSE [at |-> "checked", orderId |-> orderId, read |-> order.status, atWrite |-> "none"]
  /\ UNCHANGED <<orders, chan, last, connection, clientVars, brk, wire>>

\* prisma.order.update({where: {id: orderId}, data: {status: CANCELLED}})
CancelWrite ==
  /\ cancelPc.at = "checked"
  /\ LET u == UpdateStatus(orders, cancelPc.orderId, "CANCELLED")
     IN  /\ orders' = u.db
         /\ cancelPc' = [cancelPc EXCEPT !.at = IF u.err THEN "raised" ELSE "written",
                                           !.atWrite = orders[cancelPc.orderId].status]
  /\ UNCHANGED <<chan, last, connection, clientVars, brk, wire>>

\* rabbitmq.publish('orders.exchange', 'order.cancelled', ...) and return
CancelPublish ==
  /\ cancelPc.at = "written"
  /\ LET p == Publish(chan, "orders.exchange", "order.cancelled",
                      [orderId |-> cancelPc.orderId, reason |-> "Cancelled by user"])
     IN  cancelPc' = [cancelPc EXCEPT !.at = IF p.err THEN "raised" ELSE "returned"]
  /\ UNCHANGED <<orders, chan, last, connection, clientVars, brk, wire>>

NextCancel ==
  \/ ModuleInit
  \/ \E o \in OrderIds, u \in Users \cup {NoUser} : CancelRead(o, u)
  \/ CancelWrite
  \/ CancelPublish
  \/ \E q \in Queues : \E e \in Events(q) : Deliver(q, e)

SpecCancel == InitBroker /\ [][NextCancel]_vars

TypeOK ==
  /\ \A i \in OrderIds : orders[i] = NoOrder \/ orders[i].status \in OrderStatus
  /\ chan \in {"null", "open", "closed"}

\* ================================================================ claims
\* vocabulary of the claims
HandlerOps == Queues
CoordinatorOps == Queues \cup {"cancelOrder"}
TerminalStatuses == {"CANCELLED", "FAILED", "DELIVERED"}
PreTerminalStatuses == OrderStatus \ TerminalStatuses
LastFoundOrder == last.pre # NoOrder
Msg(exchange, routingKey, body) ==
  [exchange |-> exchange, routingKey |-> routingKey, body |-> body]
CountKey(out, routingKey) == Cardinality({i \in DOMAIN out : out[i].routingKey = routingKey})
CountMsg(out, m) == Cardinality({i \in DOMAIN out : out[i] = m})
SameMultiset(s, t) ==
  \A m \in {s[i] : i \in DOMAIN s} \cup {t[i] : i \in DOMAIN t} : CountMsg(s, m) = CountMsg(t, m)

\* C1: once an order is CANCELLED, FAILED or DELIVERED, no inbound event and
\* no cancelOrder call changes its status, and a handler given an event for
\* such an order completes without error (the message is acknowledged).
C1_TerminalAbsorbing ==
  (last.op \in CoordinatorOps /\ LastFoundOrder /\ last.pre.status \in TerminalStatuses)
    => /\ orders[last.id].status = last.pre.status
       /\ last.op \in HandlerOps => last.res = "ack"

\* C2: every handler is idempotent under redelivery: for every queue, every
\* event and every repository state, handling the event twice leaves the
\* same repository and the same multiset of published events as handling
\* it once.
C2_HandlersIdempotent ==
  \A q \in Queues : \A e \in Events(q) :
    LET once  == Handler(q, orders, "open", e)
        twice == Handler(q, once.db, "open", e)
    IN  /\ twice.db = once.db
        /\ SameMultiset(once.out \o twice.out, once.out)

\* C3: every status change the coordinator performs is PENDING->CONFIRMED,
\* PENDING/CONFIRMED->PROCESSING, PENDING/CONFIRMED->CANCELLED or
\* pre-terminal->FAILED; a status never moves backwards.
AllowedTransitions ==
  {<<"PENDING", "CONFIRMED">>}
    \cup ({"PENDING", "CONFIRMED"} \X {"PROCESSING", "CANCELLED"})
    \cup (PreTerminalStatuses \X {"FAILED"})

C3_MonotonicTransitions ==
  (last.op \in CoordinatorOps /\ LastFoundOrder
     /\ orders[last.id].status # last.pre.status)
    => <<last.pre.status, orders[last.id].status>> \in AllowedTransitions

\* C4: a handler publishes nothing when the order it refers to is already
\* terminal or already at or past the status the event would move it to.
Rank(st) ==
  CASE st = "PENDING" -> 0 [] st = "CONFIRMED" -> 1 [] st = "PROCESSING" -> 2
    [] st = "SHIPPED" -> 3 [] OTHER -> 4

AlreadyAdvanced(op, event, st) ==
  /\ st \in PreTerminalStatuses
  /\ \/ op = "inventory.reserved" /\ event.success /\ Rank(st) >= Rank("CONFIRMED")
     \/ op = "payment.completed" /\ Rank(st) >= Rank("PROCESSING")

C4_NoPublishWhenSettled ==
  (last.op \in HandlerOps /\ LastFoundOrder
     /\ (last.pre.status \in TerminalStatuses
           \/ AlreadyAdvanced(last.op, last.arg, last.pre.status)))
    => last.out = <<>>

\* C5: for a PENDING order, handling inventory.reserved{success:true} and
\* payment.completed in either order ends in PROCESSING with exactly one
\* payment.initiate and one order.confirmed published.
C5_ArrivalOrderIrrelevant ==
  \A o \in OrderIds : \A t \in TxIds :
    (orders[o] # NoOrder /\ orders[o].status = "PENDING") =>
      LET reserved  == [orderId |-> o, success |-> TRUE]
          completed == [orderId |-> o, transactionId |-> t]
          r1 == handleInventoryReserved(orders, "open", reserved)
          r2 == handlePaymentCompleted(r1.db, "open", completed)
          c1 == handlePaymentCompleted(orders, "open", completed)
          c2 == handleInventoryReserved(c1.db, "open", reserved)
      IN  /\ r2.db[o].status = "PROCESSING"
          /\ c2.db[o].status = "PROCESSING"
          /\ CountKey(r1.out \o r2.out, "payment.initiate") = 1
          /\ CountKey(r1.out \o r2.out, "order.confirmed") = 1
          /\ CountKey(c1.out \o c2.out, "payment.initiate") = 1
          /\ CountKey(c1.out \o c2.out, "order.confirmed") = 1

\* C6: inventory.reserved{success:true} delivered for a PENDING order sets
\* it CONFIRMED and publishes exactly one payment.initiate on
\* payments.exchange with that order id and the order's stored totalAmount.
C6_ReservedOnPending ==
  (last.op = "inventory.reserved" /\ last.arg.success
     /\ LastFoundOrder /\ last.pre.status = "PENDING")
    => /\ orders[last.id].status = "CONFIRMED"
       /\ last.out = <<Msg("payments.exchange", "payment.initiate",
                           [orderId |-> last.id, amount |-> orders[last.id].totalAmount])>>
       /\ orders[last.id].totalAmount = last.pre.totalAmount

C6_Witness ==
  /\ last.op = "inventory.reserved" /\ last.arg.success
  /\ LastFoundOrder /\ last.pre.status = "PENDING"
  /\ orders[last.id].status = "CONFIRMED"
  /\ Len(last.out) = 1 /\ last.out[1].body.amount = 20

\* C7: payment.failed delivered for a CONFIRMED order sets it FAILED and
\* publishes exactly one inventory.release on inventory.exchange with the
\* same order id.
C7_PaymentFailedOnConfirmed ==
  (last.op = "payment.failed" /\ LastFoundOrder /\ last.pre.status = "CONFIRMED")
    => /\ orders[last.id].status = "FAILED"
       /\ last.out = <<Msg("inventory.exchange", "inventory.release", [orderId |-> last.id])>>

C7_Witness ==
  /\ last.op = "payment.failed" /\ LastFoundOrder /\ last.pre.status = "CONFIRMED"
  /\ orders[last.id].status = "FAILED"
  /\ Len(last.out) = 1

\* C8: payment.completed delivered for a CONFIRMED or PENDING order sets it
\* PROCESSING and publishes one order.confirmed with that order id and the
\* event's transactionId; for an order in any other status it causes no
\* transition.
C8_PaymentCompleted ==
  (last.op = "payment.completed" /\ LastFoundOrder)
    => IF last.pre.status \in {"CONFIRMED", "PENDING"}
         THEN /\ orders[last.id].status = "PROCESSING"
              /\ last.out = <<Msg("orders.exchange", "order.confirmed",
                                  [orderId |-> last.id,
                                   transactionId |-> last.arg.transactionId])>>
         ELSE orders[last.id].status = last.pre.status

\* C9: inventory.reserved{success:false} or inventory.failed for a
\* pre-terminal order sets it FAILED and publishes nothing.
NegativeInventoryOutcome ==
  \/ last.op = "inventory.failed"
  \/ last.op = "inventory.reserved" /\ ~last.arg.success

C9_NegativeInventory ==
  (NegativeInventoryOutcome /\ LastFoundOrder /\ last.pre.status \in PreTerminalStatuses)
    => /\ orders[last.id].status = "FAILED"
       /\ last.out = <<>>

C9_Witness ==
  /\ last.op = "inventory.failed" /\ LastFoundOrder
  /\ last.pre.status = "CONFIRMED"
  /\ orders[last.id].status = "FAILED" /\ last.out = <<>>

\* C10 as written: cancelOrder on an order whose status is not PENDING or
\* CONFIRMED fails with InvalidState, leaves the status unchanged and
\* publishes no order.cancelled.
NotCancellable == LastFoundOrder /\ last.pre.status \notin {"PENDING", "CONFIRMED"}

C10_CancelRejected ==
  (last.op = "cancelOrder" /\ NotCancellable)
    => /\ last.res = "BadRequest"
       /\ orders[last.id] = last.pre
       /\ last.out = <<>>

\* C10 amended: cancelOrder on an order whose status is not PENDING or
\* CONFIRMED leaves the order unchanged and publishes nothing; it fails with
\* InvalidState when the call finds the order (no user id given, or the
\* given user id owns it) and with NotFound when the given user id does not
\* own it.
LastCallerOwns == last.arg = NoUser \/ last.arg = last.pre.userId

C10_CancelRejectedScoped ==
  (last.op = "cancelOrder" /\ NotCancellable)
    => /\ last.res = (IF LastCallerOwns THEN "BadRequest" ELSE "NotFound")
       /\ orders[last.id] = last.pre
       /\ last.out = <<>>

C10_Witness ==
  /\ last.op = "cancelOrder" /\ NotCancellable
  /\ last.pre.status = "PROCESSING" /\ last.arg = last.pre.userId
  /\ last.res = "BadRequest" /\ orders[last.id].status = "PROCESSING"

\* C11: cancelOrder on an order in PENDING or CONFIRMED (found by the call)
\* sets its status to CANCELLED and publishes exactly one order.cancelled on
\* orders.exchange carrying that order id and a reason.
C11_CancelAccepted ==
  (last.op = "cancelOrder" /\ LastFoundOrder /\ LastCallerOwns
     /\ last.pre.status \in {"PENDING", "CONFIRMED"})
    => /\ orders[last.id].status = "CANCELLED"
       /\ last.out = <<Msg("orders.exchange", "order.cancelled",
                           [orderId |-> last.id, reason |-> "Cancelled by user"])>>

\* vocabulary of the create-order claims
Available(productId) ==
  IF Catalog[productId].stock = NoStock THEN 0
  ELSE Catalog[productId].stock.quantity - Catalog[productId].stock.reserved
OnHand(productId) ==
  IF Catalog[productId].stock = NoStock THEN 0 ELSE Catalog[productId].stock.quantity
AllProductsExist(dto) == \A i \in DOMAIN dto.items : dto.items[i].productId \in DOMAIN Catalog
ValidRequest(dto) ==
  /\ AllProductsExist(dto)
  /\ \A i \in DOMAIN dto.items : dto.items[i].quantity <= Available(dto.items[i].productId)
RECURSIVE SumItems(_, _)
SumItems(items, n) ==
  IF n = 0 THEN 0
  ELSE SumItems(items, n - 1) + Catalog[items[n].productId].price * items[n].quantity
LastCreate == last.op = "createOrder"
\* the latest createOrder left the repository as it found it
LastPersistedNothing == last.id = 0

\* C12: for every valid createOrder request the persisted order is PENDING,
\* its totalAmount is the sum of catalog price x quantity over the items,
\* every persisted item carries the catalog price, and one order.created
\* event with the same order id, user id, items and total is published.
C12_CreateValid ==
  (LastCreate /\ ValidRequest(last.arg)) =>
    LET dto   == last.arg
        total == SumItems(dto.items, Len(dto.items))
    IN  /\ last.id # 0
        /\ orders[last.id].status = "PENDING"
        /\ orders[last.id].userId = dto.userId
        /\ orders[last.id].totalAmount = total
        /\ \A i \in DOMAIN dto.items :
             /\ orders[last.id].items[i].productId = dto.items[i].productId
             /\ orders[last.id].items[i].quantity = dto.items[i].quantity
             /\ orders[last.id].items[i].price = Catalog[dto.items[i].productId].price
        /\ last.out = <<Msg("orders.exchange", "order.created",
                            [orderId |-> last.id, userId |-> dto.userId,
                             items |-> dto.items, totalAmount |-> total])>>

\* C13: createOrder with any item whose quantity exceeds the available stock
\* of its product fails with InvalidRequest, persists nothing and publishes
\* nothing, wherever the offending item stands in the list.
ExceedsAvailable(dto) ==
  \E i \in DOMAIN dto.items :
    /\ dto.items[i].productId \in DOMAIN Catalog
    /\ dto.items[i].quantity > Available(dto.items[i].productId)

C13_InsufficientStockRejected ==
  (LastCreate /\ AllProductsExist(last.arg) /\ ExceedsAvailable(last.arg))
    => last.res = "BadRequest" /\ LastPersistedNothing /\ last.out = <<>>

\* C14: the stock precondition is evaluated on available stock (quantity on
\* hand - reserved): a request for more than that is rejected even when it
\* does not exceed the quantity on hand.
WithinOnHand(dto) ==
  \A i \in DOMAIN dto.items :
    /\ dto.items[i].productId \in DOMAIN Catalog
    /\ dto.items[i].quantity <= OnHand(dto.items[i].productId)

C14_AvailableStockChecked ==
  (LastCreate /\ WithinOnHand(last.arg) /\ ExceedsAvailable(last.arg))
    => last.res = "BadRequest" /\ LastPersistedNothing

\* C15: createOrder fails with NotFound exactly when some requested product
\* id names no product; then nothing is persisted; a request whose product
\* ids all exist, the same product named twice included, is never rejected
\* with NotFound.
C15_NotFoundIffUnresolved ==
  LastCreate =>
    /\ (last.res = "NotFound") <=> ~AllProductsExist(last.arg)
    /\ last.res = "NotFound" => (LastPersistedNothing /\ last.out = <<>>)

\* C18: publish fails, and sends nothing, in every state in which the client
\* has not completed connect successfully: before connect, while connect is
\* in progress, and after a connect that failed at any step.
C18_PublishNeedsConnect ==
  pub.res = "sent" => pub.at = "connected"

\* C19: close releases the channel, then the connection, and the connection
\* is closed even if closing the channel fails: once close has returned or
\* raised on a connected client, connection.close() was called.
C19_CloseReleasesConnection ==
  (closePc.at \in {"returned", "raised"} /\ closePc.wasConnected)
    => closePc.triedConnection

\* ------------------------------------------------- delivery vocabulary
InBroker(m) == brk[m].st \in {"ready", "running"}

\* what the handler of message m does with the repository as it is now
HandlerNow(m) == Handler(brk[m].queue, orders, chan, brk[m].event)

\* message m names an order id no order ever gets: its handler raises on
\* every delivery
Poison(m) == InBroker(m) /\ brk[m].event.orderId = MissingOrderId

\* C16: a delivery is settled in the step that ends its callback and only
\* there: acknowledged exactly when the handler ran without error,
\* otherwise negatively acknowledged and back in its queue marked
\* redelivered; a message leaves the broker only through such an
\* acknowledgment, and the handler's failure is not rethrown.
C16_AckContract ==
  [][\A m \in Msgs :
       /\ (brk[m].st = "running" /\ brk'[m].st # "running") =>
             /\ brk'[m].st = IF HandlerNow(m).err THEN "ready" ELSE "acked"
             /\ HandlerNow(m).err => brk'[m].redelivered
       /\ (brk[m].st # "acked" /\ brk'[m].st = "acked") =>
             brk[m].st = "running" /\ ~HandlerNow(m).err
       /\ brk'[m].st \notin {"dropped", "unhandled"}]_vars

\* one message was nacked and is back in its queue, another was acked
C16_Witness ==
  /\ \E m \in Msgs : brk[m].st = "ready" /\ brk[m].redelivered
  /\ \E m \in Msgs : brk[m].st = "acked"

\* C17: a message naming an order that never exists stays in the broker for
\* ever, neither acknowledged nor dropped, and goes round without end:
\* ready, delivered, nacked and requeued, delivered again; and a message
\* whose handler can succeed is eventually acknowledged.
C17_PoisonRetriedForever ==
  /\ [][\A m \in Msgs : Poison(m) => InBroker(m)']_vars
  /\ \A m \in Msgs : (Poison(m) /\ brk[m].st = "ready") ~> (brk[m].st = "running")
  /\ \A m \in Msgs : (Poison(m) /\ brk[m].st = "running")
                         ~> (brk[m].st = "ready" /\ brk[m].redelivered)
  /\ \A m \in Msgs : (InBroker(m) /\ ~HandlerNow(m).err) ~> (brk[m].st = "acked")

\* a poison message is in its second or later delivery while another
\* message has been acknowledged
C17_Witness ==
  /\ \E m \in Msgs : Poison(m) /\ brk[m].st = "running" /\ brk[m].redelivered
  /\ \E m \in Msgs : brk[m] = Acked

\* C20: at most one handler invocation of a queue is running at a time.
C20_OneAtATimePerQueue ==
  \A q \in Queues :
    Cardinality({m \in Msgs : brk[m].st = "running" /\ brk[m].queue = q}) <= 1


\* C21: the object the handler receives is structurally equal to the
\* object that was passed to publish, timestamp included.
C21_RoundTrip ==
  wire.received # Undefined => wire.received = wire.published

\* C22: no step changes an existing order's totalAmount, items (with their
\* price snapshots) or owning user id, or removes the order: an order that
\* exists differs afterwards in its status at most.
C22_OnlyStatusChanges ==
  [][\A i \in OrderIds :
       orders[i] # NoOrder =>
         /\ orders'[i] # NoOrder
         /\ orders'[i] = [orders[i] EXCEPT !.status = orders'[i].status]]_vars

\* a coordinator operation has just changed the status of an order that
\* has items
C22_Witness ==
  /\ last.op \in CoordinatorOps
  /\ LastFoundOrder
  /\ orders[last.id].status # last.pre.status
  /\ orders[last.id].items # <<>>
  /\ orders[last.id].items = last.pre.items

\* C23: whenever cancelOrder has written CANCELLED, the order's status at
\* the moment of that write was PENDING or CONFIRMED.
C23_CancelWritesOnlyCancellable ==
  cancelPc.atWrite # "none" => cancelPc.atWrite \in {"PENDING", "CONFIRMED"}

\* C24: once a createOrder call has finished, it left an order in the
\* repository exactly when it published one order.created event for it.
C24_PersistAndAnnounce ==
  LastCreate =>
    ((last.id # 0 /\ orders[last.id] # NoOrder)
       <=> (\E i \in OrderIds : CountKey(last.out, "order.created") = 1
                                  /\ last.out[1].body.orderId = i))

====
